---- MODULE Spec2Model ----
(***************************************************************************)
(* Model of the JSON-RPC proxy handler of app/proxy/proxy.go: Handle and   *)
(* GetAuthError, together with the collaborators Handle talks to (user     *)
(* resolution, method classification, the SDK router, the Caller and the   *)
(* metrics, audit and error-tracking sinks).                               *)
(*                                                                         *)
(* One request is followed from arrival to its end.  Handle is cut at the  *)
(* points where it consumes an input from a collaborator: reading the      *)
(* body, decoding it, resolving the user, selecting the backend and        *)
(* building the Caller, calling the backend, writing the response.  The    *)
(* router's pool and the users' server assignments change out of band.     *)
(***************************************************************************)
EXTENDS Integers, Sequences, FiniteSets, TLC

\* ---------------------------------------------------------------- bounds
\* User ids are 1..MaxUserID; an error wraps at most MaxErrDepth errors.
MaxUserID == 1
MaxErrDepth == 2

\* ------------------------------------------------------------ vocabulary
NilUser == 0
Users == 1..MaxUserID

Addresses == {"sdk1", "sdk2"}
NoAddress == ""

MethodWalletSend == "wallet_send"
Methods == {MethodWalletSend, "resolve", "status"}

\* metrics.FailureKind* labels used by Handle
FailureKindClient == "client"
FailureKindClientJSON == "client_json"
FailureKindAuth == "auth"
FailureKindNet == "net"
FailureKindRPCJSON == "rpc_json"
FailureKindRPC == "rpc"

StatusBadRequest == 400

\* An error value is the chain of errors it wraps, outermost first; the nil
\* error is the empty chain.
ErrNoAuthInfo == "ErrNoAuthInfo"
ErrNames == {ErrNoAuthInfo, "ErrOther"}
NilErr == << >>
ErrChains == UNION {[1..n -> ErrNames] : n \in 0..MaxErrDepth}

\* errors.Is(err, target): target occurs somewhere in the chain of err.
Is(err, target) == \E i \in 1..Len(err) : err[i] = target

\* ----------------------------------------------------- method classification
MethodRequiresWallet(method) == method \in {MethodWalletSend}

MethodAcceptsWallet(method) == method \in {MethodWalletSend, "resolve"}

\* --------------------------------------------------------------- rpcerrors
NoAuthError == [kind |-> "none", cause |-> NilErr]
NewAuthRequiredError == [kind |-> "AuthRequired", cause |-> NilErr]
NewForbiddenError(err) == [kind |-> "Forbidden", cause |-> err]
UnknownAuthError == [kind |-> "unknown", cause |-> NilErr]

\* A body written to the client is a JSON-RPC envelope: it carries the
\* version tag and either a result or an error member.  origin tells the
\* proxy-made envelopes from the serialized backend response.
ErrorEnvelope(class) ==
    [jsonrpc |-> "2.0", member |-> "error", class |-> class, origin |-> "proxy"]

NewJSONParseError == ErrorEnvelope("ParseError")
ErrorToJSON(authErr) == ErrorEnvelope(authErr.kind)
ToJSON(err) == ErrorEnvelope("ProxyError")
NewInternalError == ErrorEnvelope("InternalError")

\* -------------------------------------------------------------- GetAuthError
GetAuthError_Swapped(user, err) ==
    IF err = NilErr /\ user # NilUser THEN NoAuthError
    ELSE IF err # NilErr THEN NewForbiddenError(err)
    ELSE IF Is(err, ErrNoAuthInfo) THEN NewAuthRequiredError
    ELSE IF user = NilUser THEN NewForbiddenError(<<"must authenticate">>)
    ELSE UnknownAuthError

GetAuthError(user, err) ==
    IF err = NilErr /\ user # NilUser THEN NoAuthError
    ELSE IF Is(err, ErrNoAuthInfo) THEN NewAuthRequiredError
    ELSE IF err # NilErr THEN NewForbiddenError(err)
    ELSE IF user = NilUser THEN NewForbiddenError(<<"must authenticate">>)
    ELSE UnknownAuthError

\* ---------------------------------------------------------- request bodies
\* r.Body is absent, fails while being read, or yields a text.  A text is
\* no JSON at all, the JSON null, a JSON array (a batch), or a JSON object
\* whose "method" member is a method name or is missing.
NoBody == [kind |-> "absent", method |-> ""]
UnreadableBody == [kind |-> "unreadable", method |-> ""]
Texts ==
    {[kind |-> k, method |-> ""] : k \in {"garbage", "null", "array"}}
    \cup {[kind |-> "object", method |-> m] : m \in Methods \cup {""}}
Bodies == {NoBody, UnreadableBody} \cup Texts

NilRequest == [nil |-> TRUE, Method |-> ""]

\* json.Unmarshal(body, &rpcReq) with rpcReq a *jsonrpc.RPCRequest: an error
\* for text that is not JSON or is not an object; the JSON null leaves the
\* pointer nil without an error; an object fills a request, a missing
\* "method" member leaving the zero value "".
Unmarshal(text) ==
    IF text.kind \in {"garbage", "array"}
    THEN [err |-> TRUE, rpcReq |-> NilRequest]
    ELSE IF text.kind = "null"
    THEN [err |-> FALSE, rpcReq |-> NilRequest]
    ELSE [err |-> FALSE, rpcReq |-> [nil |-> FALSE, Method |-> text.method]]

\* ------------------------------------------------------------------ state
VARIABLES
    servers,      \* the router's current backend set
    binding,      \* user id -> address of the server assigned to the user, or ""
    routed,       \* user and address of the latest authenticated call that
                  \* was routed, until that user's assignment changes
    pc,           \* position of the request in Handle
    body,         \* r.Body and its content
    rpcReq,       \* decoded request
    user, err,    \* result of auth.FromRequest
    resolved,     \* auth.FromRequest has been called for this request
    authErr,      \* result of GetAuthError, when called
    caller,       \* the Caller built for this request
    hooks,        \* postflight hooks registered on the Caller
    rpcRes,       \* response returned by Caller.Call
    callErr,      \* error returned by Caller.Call
    status,       \* status written with WriteHeader, 0 when none
    written,      \* bodies written to the client
    durations,    \* ProxyE2ECallDurations observations
    failures,     \* ProxyE2ECallFailedDurations observations
    sentry,       \* reports to the error-tracking sink
    auditLog,     \* audit records
    backendCalls  \* calls received by the backend

vars == <<servers, binding, routed, pc, body, rpcReq, user, err, resolved,
          authErr, caller, hooks, rpcRes, callErr, status, written, durations,
          failures, sentry, auditLog, backendCalls>>

envVars == <<servers, binding>>
outVars == <<status, written, durations, failures, sentry>>

NotRouted == [user |-> NilUser, address |-> NoAddress]
NoCaller == [built |-> FALSE, endpoint |-> NoAddress, userID |-> 0, Cache |-> FALSE]
NoResponse == [nil |-> TRUE, Error |-> FALSE, marshalable |-> TRUE]
Responses == {[nil |-> FALSE, Error |-> e, marshalable |-> m] : e, m \in BOOLEAN}

\* ---------------------------------------------------------------- metrics
observeFailure_NoOverall(method, endpoint, kind) ==
    /\ durations' = durations
    /\ failures' = Append(failures, <<method, endpoint, kind>>)

observeFailure(method, endpoint, kind) ==
    /\ durations' = Append(durations, <<method, endpoint>>)
    /\ failures' = Append(failures, <<method, endpoint, kind>>)

observeSuccess(method, endpoint) ==
    /\ durations' = Append(durations, <<method, endpoint>>)
    /\ failures' = failures

\* ----------------------------------------------------------------- router
\* sdkrouter.GetSDKAddress(user): the address of the server assigned to the
\* user, "" for no user or a user without a server.
GetSDKAddress(u) == IF u = NilUser THEN NoAddress ELSE binding[u]

\* Router.RandomServer(): the servers it may return, any one of the pool.
RandomServer(pool) == pool

\* ------------------------------------------------------------------- Init
Init ==
    /\ servers = Addresses
    /\ binding = [u \in Users |-> NoAddress]
    /\ routed = NotRouted
    /\ pc = "idle"
    /\ body = NoBody
    /\ rpcReq = NilRequest
    /\ user = NilUser
    /\ err = NilErr
    /\ resolved = FALSE
    /\ authErr = NoAuthError
    /\ caller = NoCaller
    /\ hooks = << >>
    /\ rpcRes = NoResponse
    /\ callErr = NilErr
    /\ status = 0
    /\ written = << >>
    /\ durations = << >>
    /\ failures = << >>
    /\ sentry = 0
    /\ auditLog = << >>
    /\ backendCalls = 0

\* ------------------------------------------------- Handle: reading the body
\* r.Body == nil
BodyAbsent ==
    /\ pc = "idle"
    /\ body' = NoBody
    /\ status' = StatusBadRequest
    /\ written' = Append(written, NewJSONParseError)
    /\ observeFailure("", "", FailureKindClient)
    /\ pc' = "done"
    /\ UNCHANGED <<envVars, routed, rpcReq, user, err, resolved, authErr, caller,
                   hooks, rpcRes, callErr, sentry, auditLog, backendCalls>>

\* ioutil.ReadAll(r.Body) fails
BodyUnreadable ==
    /\ pc = "idle"
    /\ body' = UnreadableBody
    /\ status' = StatusBadRequest
    /\ written' = Append(written, NewJSONParseError)
    /\ observeFailure("", "", FailureKindClient)
    /\ pc' = "done"
    /\ UNCHANGED <<envVars, routed, rpcReq, user, err, resolved, authErr, caller,
                   hooks, rpcRes, callErr, sentry, auditLog, backendCalls>>

\* ioutil.ReadAll(r.Body) yields the text
BodyRead ==
    /\ pc = "idle"
    /\ \E t \in Texts : body' = t
    /\ pc' = "decode"
    /\ UNCHANGED <<envVars, routed, rpcReq, user, err, resolved, authErr, caller,
                   hooks, rpcRes, callErr, outVars, auditLog, backendCalls>>

\* ------------------------------------------------------- Handle: decoding
DecodeError_Continue ==
    /\ pc = "decode"
    /\ Unmarshal(body).err
    /\ rpcReq' = [nil |-> FALSE, Method |-> ""]
    /\ pc' = "auth"
    /\ UNCHANGED <<envVars, routed, body, user, err, resolved, authErr, caller,
                   hooks, rpcRes, callErr, outVars, auditLog, backendCalls>>

DecodeError ==
    /\ pc = "decode"
    /\ Unmarshal(body).err
    /\ written' = Append(written, NewJSONParseError)
    /\ observeFailure("", "", FailureKindClientJSON)
    /\ pc' = "done"
    /\ UNCHANGED <<envVars, routed, body, rpcReq, user, err, resolved, authErr,
                   caller, hooks, rpcRes, callErr, status, sentry, auditLog,
                   backendCalls>>

\* The text decoded without an error and left rpcReq nil: rpcReq.Method, read
\* for the trace line, dereferences the nil pointer and the handler panics.
DecodeNil ==
    /\ pc = "decode"
    /\ ~Unmarshal(body).err
    /\ Unmarshal(body).rpcReq.nil
    /\ rpcReq' = Unmarshal(body).rpcReq
    /\ pc' = "panic"
    /\ UNCHANGED <<envVars, routed, body, user, err, resolved, authErr, caller,
                   hooks, rpcRes, callErr, outVars, auditLog, backendCalls>>

DecodeOK ==
    /\ pc = "decode"
    /\ ~Unmarshal(body).err
    /\ ~Unmarshal(body).rpcReq.nil
    /\ rpcReq' = Unmarshal(body).rpcReq
    /\ pc' = "auth"
    /\ UNCHANGED <<envVars, routed, body, user, err, resolved, authErr, caller,
                   hooks, rpcRes, callErr, outVars, auditLog, backendCalls>>

\* ------------------------------------------------------ Handle: auth gate
\* The authErr of Handle: GetAuthError is called for a wallet-required
\* method only.
AuthGate_Open(method, u, e) == NoAuthError

AuthGate(method, u, e) ==
    IF MethodRequiresWallet(method) THEN GetAuthError(u, e) ELSE NoAuthError

\* auth.FromRequest(r) returns (u, e); the gate rejects the request.
AuthReject ==
    /\ pc = "auth"
    /\ \E u \in Users \cup {NilUser}, e \in ErrChains :
        /\ AuthGate(rpcReq.Method, u, e) # NoAuthError
        /\ user' = u
        /\ err' = e
        /\ authErr' = AuthGate(rpcReq.Method, u, e)
        /\ written' = Append(written, ErrorToJSON(AuthGate(rpcReq.Method, u, e)))
    /\ resolved' = TRUE
    /\ observeFailure(rpcReq.Method, "", FailureKindAuth)
    /\ pc' = "done"
    /\ UNCHANGED <<envVars, routed, body, rpcReq, caller, hooks, rpcRes, callErr,
                   status, sentry, auditLog, backendCalls>>

\* auth.FromRequest(r) returns (u, e); the gate lets the request through.
AuthPass ==
    /\ pc = "auth"
    /\ \E u \in Users \cup {NilUser}, e \in ErrChains :
        /\ AuthGate(rpcReq.Method, u, e) = NoAuthError
        /\ user' = u
        /\ err' = e
        /\ authErr' = AuthGate(rpcReq.Method, u, e)
    /\ resolved' = TRUE
    /\ pc' = "route"
    /\ UNCHANGED <<envVars, routed, body, rpcReq, caller, hooks, rpcRes, callErr,
                   outVars, auditLog, backendCalls>>

\* ------------------------------------- Handle: backend selection and Caller
\* var userID int; if query.MethodAcceptsWallet(method) && user != nil
BoundUserID_AnyUser(method, u) == IF u # NilUser THEN u ELSE 0

BoundUserID(method, u) ==
    IF MethodAcceptsWallet(method) /\ u # NilUser THEN u ELSE 0

\* sdkAddress := GetSDKAddress(user); if it is "", the address of the server
\* picked by RandomServer.
ResolveSDKAddress_NoFallback(assigned, picked) == assigned

ResolveSDKAddress(assigned, picked) ==
    IF assigned = NoAddress THEN picked ELSE assigned

Authenticated == user # NilUser /\ err = NilErr

\* The hooks Handle registers on the Caller, in registration order: the
\* remote-IP log field for "wallet_" methods and the audit record for
\* wallet_send.  The hooks of lbrynext.InstallHooks are not modelled.
HandleHooks == <<"wallet_", MethodWalletSend>>

\* The user has no server and the pool is empty: RandomServer has no server
\* to return and reading .Address of its result panics.
RoutePanic ==
    /\ pc = "route"
    /\ GetSDKAddress(user) = NoAddress
    /\ RandomServer(servers) = {}
    /\ pc' = "panic"
    /\ UNCHANGED <<envVars, routed, body, rpcReq, user, err, resolved, authErr,
                   caller, hooks, rpcRes, callErr, outVars, auditLog,
                   backendCalls>>

Route ==
    /\ pc = "route"
    /\ GetSDKAddress(user) # NoAddress \/ RandomServer(servers) # {}
    /\ \E picked \in IF GetSDKAddress(user) = NoAddress
                     THEN RandomServer(servers) ELSE {NoAddress},
          cached \in BOOLEAN :
        LET sdkAddress == ResolveSDKAddress(GetSDKAddress(user), picked) IN
        /\ caller' = [built |-> TRUE, endpoint |-> sdkAddress,
                      userID |-> BoundUserID(rpcReq.Method, user),
                      Cache |-> cached]
        /\ routed' = IF Authenticated
                     THEN [user |-> user, address |-> sdkAddress]
                     ELSE routed
    /\ hooks' = HandleHooks
    /\ pc' = "call"
    /\ UNCHANGED <<envVars, body, rpcReq, user, err, resolved, authErr, rpcRes,
                   callErr, outVars, auditLog, backendCalls>>

\* ------------------------------------------------------------- Caller.Call
\* A hook registered for name fires for method when name is the method or a
\* prefix of it.
HookMatches(name, method) ==
    \/ name = method
    \/ name = "wallet_" /\ method = MethodWalletSend

\* The audit records the postflight hooks of the Caller write for a call that
\* obtained a response.
PostflightAudit ==
    IF \E i \in 1..Len(hooks) :
          hooks[i] = MethodWalletSend /\ HookMatches(hooks[i], rpcReq.Method)
    THEN Append(auditLog, <<caller.userID, MethodWalletSend>>)
    ELSE auditLog

\* c.Call(rpcReq) fails: no response, an error.
CallFails ==
    /\ pc = "call"
    /\ backendCalls' = backendCalls + 1
    /\ rpcRes' = NoResponse
    /\ callErr' = <<"ErrOther">>
    /\ pc' = "respond"
    /\ UNCHANGED <<envVars, routed, body, rpcReq, user, err, resolved, authErr,
                   caller, hooks, outVars, auditLog>>

\* c.Call(rpcReq) returns a response of the backend, with or without an
\* RPC error in it.
CallReturns ==
    /\ pc = "call"
    /\ backendCalls' = backendCalls + 1
    /\ \E res \in Responses : rpcRes' = res
    /\ callErr' = NilErr
    /\ auditLog' = PostflightAudit
    /\ pc' = "respond"
    /\ UNCHANGED <<envVars, routed, body, rpcReq, user, err, resolved, authErr,
                   caller, hooks, outVars>>

\* ------------------------------------------------------ Handle: responding
\* responses.JSONRPCSerialize(rpcRes): the envelope of the response, its
\* member "error" or "result" as the response has an RPC error or not.
JSONRPCSerialize(res) ==
    [err |-> ~res.marshalable,
     bytes |-> [jsonrpc |-> "2.0",
                member |-> IF res.Error THEN "error" ELSE "result",
                class |-> "RPCResponse", origin |-> "backend"]]

\* w.Write(serialized)
ResponseBody_Masked(res, serialized) ==
    IF res.Error THEN ToJSON(<<"ErrOther">>) ELSE serialized

ResponseBody(res, serialized) == serialized

RespondCallError ==
    /\ pc = "respond"
    /\ callErr # NilErr
    /\ sentry' = sentry + 1
    /\ written' = Append(written, ToJSON(callErr))
    /\ observeFailure(rpcReq.Method, caller.endpoint, FailureKindNet)
    /\ pc' = "done"
    /\ UNCHANGED <<envVars, routed, body, rpcReq, user, err, resolved, authErr,
                   caller, hooks, rpcRes, callErr, status, auditLog,
                   backendCalls>>

RespondSerializeError ==
    /\ pc = "respond"
    /\ callErr = NilErr
    /\ JSONRPCSerialize(rpcRes).err
    /\ sentry' = sentry + 1
    /\ written' = Append(written, NewInternalError)
    /\ observeFailure(rpcReq.Method, caller.endpoint, FailureKindRPCJSON)
    /\ pc' = "done"
    /\ UNCHANGED <<envVars, routed, body, rpcReq, user, err, resolved, authErr,
                   caller, hooks, rpcRes, callErr, status, auditLog,
                   backendCalls>>

RespondRPCError ==
    /\ pc = "respond"
    /\ callErr = NilErr
    /\ ~JSONRPCSerialize(rpcRes).err
    /\ rpcRes.Error
    /\ observeFailure(rpcReq.Method, caller.endpoint, FailureKindRPC)
    /\ written' = Append(written, ResponseBody(rpcRes, JSONRPCSerialize(rpcRes).bytes))
    /\ pc' = "done"
    /\ UNCHANGED <<envVars, routed, body, rpcReq, user, err, resolved, authErr,
                   caller, hooks, rpcRes, callErr, status, sentry, auditLog,
                   backendCalls>>

RespondSuccess ==
    /\ pc = "respond"
    /\ callErr = NilErr
    /\ ~JSONRPCSerialize(rpcRes).err
    /\ ~rpcRes.Error
    /\ observeSuccess(rpcReq.Method, caller.endpoint)
    /\ written' = Append(written, ResponseBody(rpcRes, JSONRPCSerialize(rpcRes).bytes))
    /\ pc' = "done"
    /\ UNCHANGED <<envVars, routed, body, rpcReq, user, err, resolved, authErr,
                   caller, hooks, rpcRes, callErr, status, sentry, auditLog,
                   backendCalls>>

\* The handler has returned or panicked; the server takes the next request.
NextRequest ==
    /\ pc \in {"done", "panic"}
    /\ pc' = "idle"
    /\ body' = NoBody
    /\ rpcReq' = NilRequest
    /\ user' = NilUser
    /\ err' = NilErr
    /\ resolved' = FALSE
    /\ authErr' = NoAuthError
    /\ caller' = NoCaller
    /\ hooks' = << >>
    /\ rpcRes' = NoResponse
    /\ callErr' = NilErr
    /\ status' = 0
    /\ written' = << >>
    /\ durations' = << >>
    /\ failures' = << >>
    /\ sentry' = 0
    /\ auditLog' = << >>
    /\ backendCalls' = 0
    /\ UNCHANGED <<envVars, routed>>

\* ------------------------------------------------------------- environment
\* The pool of the router is refreshed out of band.
SetServers ==
    /\ \E pool \in SUBSET Addresses :
        /\ pool # servers
        /\ servers' = pool
    /\ UNCHANGED <<binding, routed, pc, body, rpcReq, user, err, resolved,
                   authErr, caller, hooks, rpcRes, callErr, outVars, auditLog,
                   backendCalls>>

\* A user is assigned a server, or moved to another one.
Bind ==
    /\ \E u \in Users, a \in Addresses :
        /\ binding[u] # a
        /\ binding' = [binding EXCEPT ![u] = a]
        /\ routed' = IF routed.user = u THEN NotRouted ELSE routed
    /\ UNCHANGED <<servers, pc, body, rpcReq, user, err, resolved, authErr,
                   caller, hooks, rpcRes, callErr, outVars, auditLog,
                   backendCalls>>

Next ==
    \/ BodyAbsent
    \/ BodyUnreadable
    \/ BodyRead
    \/ DecodeError
    \/ DecodeNil
    \/ DecodeOK
    \/ AuthReject
    \/ AuthPass
    \/ RoutePanic
    \/ Route
    \/ CallFails
    \/ CallReturns
    \/ RespondCallError
    \/ RespondSerializeError
    \/ RespondRPCError
    \/ RespondSuccess
    \/ NextRequest
    \/ SetServers
    \/ Bind

Spec == Init /\ [][Next]_vars

TypeOK ==
    /\ servers \subseteq Addresses
    /\ binding \in [Users -> Addresses \cup {NoAddress}]
    /\ routed \in [user : Users \cup {NilUser}, address : Addresses \cup {NoAddress}]
    /\ pc \in {"idle", "decode", "auth", "route", "call", "respond", "done", "panic"}
    /\ body \in Bodies
    /\ user \in Users \cup {NilUser}
    /\ err \in ErrChains
    /\ resolved \in BOOLEAN
    /\ Len(written) <= 1

\* ================================================================ properties
RoutedNow == pc = "route" /\ pc' = "call"

\* C1: a wallet-required method whose user resolution gives no valid user
\* (GetAuthError non-nil) ends at the auth gate with the auth error written
\* and with no Caller built, no hook registered, no audit record and no
\* backend call; without auth info the error is AuthRequired.
C1_AuthGateTerminal ==
    (resolved /\ MethodRequiresWallet(rpcReq.Method)
        /\ GetAuthError(user, err) # NoAuthError)
    => /\ pc = "done"
       /\ Len(written) = 1
       /\ written[1].member = "error"
       /\ written[1].class = GetAuthError(user, err).kind
       /\ (err = <<ErrNoAuthInfo>> => written[1].class = "AuthRequired")
       /\ caller = NoCaller
       /\ hooks = << >>
       /\ auditLog = << >>
       /\ backendCalls = 0

C1_Witness ==
    /\ pc = "done"
    /\ rpcReq.Method = MethodWalletSend
    /\ user = NilUser
    /\ err = <<ErrNoAuthInfo>>
    /\ Len(written) = 1
    /\ written[1].class = "AuthRequired"
    /\ auditLog = << >>
    /\ backendCalls = 0

\* C2: where Handle has called GetAuthError(user, err), the result is nil
\* exactly for a nil err with a user, AuthRequired exactly when err is
\* ErrNoAuthInfo, Forbidden in every other case, and never the fall-through
\* "unknown auth error".
C2_AuthErrorClasses ==
    (resolved /\ MethodRequiresWallet(rpcReq.Method))
    => /\ (authErr.kind = "none") <=> (err = NilErr /\ user # NilUser)
       /\ (authErr.kind = "AuthRequired") <=> Is(err, ErrNoAuthInfo)
       /\ (authErr.kind = "Forbidden")
            <=> (~Is(err, ErrNoAuthInfo) /\ (err # NilErr \/ user = NilUser))
       /\ authErr.kind \in {"none", "AuthRequired", "Forbidden"}

C2_Witness ==
    /\ pc = "done"
    /\ MethodRequiresWallet(rpcReq.Method)
    /\ user = NilUser
    /\ err = NilErr
    /\ authErr.kind = "Forbidden"

\* C3: an authenticated user whose assignment did not change in between is
\* routed to the address the user's previous authenticated call was routed to.
C3_SameBackend ==
    [][(RoutedNow /\ Authenticated /\ routed.user = user)
         => caller'.endpoint = routed.address]_vars

\* C4: an anonymous call is bound to an address of the router's current
\* backend set and leaves the users' assignments unchanged.
C4_AnonymousFromPool ==
    [][(RoutedNow /\ user = NilUser)
         => (caller'.endpoint \in servers /\ binding' = binding)]_vars

C4_Witness ==
    /\ pc = "call"
    /\ user = NilUser
    /\ caller.built
    /\ caller.endpoint \in Addresses
    /\ binding = [u \in Users |-> NoAddress]

\* C5: with an empty pool, a request that passed decoding and the auth gate
\* ends at backend selection with an error envelope written, without a
\* crash and without a Caller.
C5_EmptyPoolFails ==
    [][(pc = "route" /\ servers = {} /\ pc' # "route")
         => /\ pc' = "done"
            /\ Len(written') = 1
            /\ written'[1].member = "error"
            /\ caller' = NoCaller]_vars

\* C6: Handle never crashes, and when it ends it has written exactly one
\* JSON-RPC envelope, an error envelope on every failure path.
C6_AlwaysAnEnvelope ==
    /\ pc # "panic"
    /\ pc = "done"
         => /\ Len(written) = 1
            /\ written[1].jsonrpc = "2.0"
            /\ written[1].member \in {"error", "result"}
            /\ (failures # << >> => written[1].member = "error")

\* The failure kind of the path a finished request took, "" for success.
PathKind ==
    IF body.kind \in {"absent", "unreadable"} THEN "client"
    ELSE IF body.kind \in {"garbage", "array"} THEN "client_json"
    ELSE IF authErr.kind # "none" THEN "auth"
    ELSE IF callErr # NilErr THEN "net"
    ELSE IF ~rpcRes.marshalable THEN "rpc_json"
    ELSE IF rpcRes.Error THEN "rpc"
    ELSE ""

\* C7: a Handle that returned has emitted exactly one duration observation
\* tagged by method and backend address, plus exactly one failure
\* observation of the kind of its path when it failed and none when it
\* succeeded; nothing is emitted before the end.
C7_OneObservation ==
    /\ pc # "done" => (durations = << >> /\ failures = << >>)
    /\ pc = "done"
         => /\ durations = <<<<rpcReq.Method, caller.endpoint>>>>
            /\ failures = IF PathKind = "" THEN << >>
                          ELSE <<<<rpcReq.Method, caller.endpoint, PathKind>>>>

C7_Witness ==
    /\ pc = "done"
    /\ durations = <<<<MethodWalletSend, "sdk1">>>>
    /\ failures = <<<<MethodWalletSend, "sdk1", "rpc">>>>

\* C8: a body that is absent, unreadable or does not decode ends the request
\* with a parse error; the user is never resolved, no Caller is built, no
\* hook is registered and the backend is never called.
C8_ParseErrorTerminal ==
    (pc # "idle" /\ body.kind \in {"absent", "unreadable", "garbage", "array"})
    => /\ pc \in {"decode", "done"}
       /\ pc = "done" => (Len(written) = 1 /\ written[1].class = "ParseError")
       /\ ~resolved
       /\ caller = NoCaller
       /\ hooks = << >>
       /\ auditLog = << >>
       /\ backendCalls = 0

C8_Witness ==
    /\ pc = "done"
    /\ body.kind = "garbage"
    /\ Len(written) = 1
    /\ written[1].class = "ParseError"
    /\ ~resolved

\* C9: a serializable response carrying an RPC error, returned without a Go
\* error, is written as the backend's own envelope, reports nothing to the
\* error-tracking sink and is recorded with kind RPC; a proxy-made envelope
\* or a sink report after the call occurs only for a Caller error or a
\* serialization failure.
C9_RPCErrorPassthrough ==
    /\ (pc = "done" /\ caller.built /\ callErr = NilErr
          /\ rpcRes.Error /\ rpcRes.marshalable)
         => /\ Len(written) = 1
            /\ written[1].origin = "backend"
            /\ written[1].member = "error"
            /\ sentry = 0
            /\ failures = <<<<rpcReq.Method, caller.endpoint, "rpc">>>>
    /\ (sentry > 0 \/ (pc = "done" /\ caller.built /\ written[1].origin = "proxy"))
         => (callErr # NilErr \/ ~rpcRes.marshalable)

C9_Witness ==
    /\ pc = "done"
    /\ callErr = NilErr
    /\ rpcRes.Error
    /\ rpcRes.marshalable
    /\ Len(written) = 1
    /\ written[1].origin = "backend"
    /\ sentry = 0

\* C10: a method that is not wallet-required passes the auth gate whatever
\* user resolution returned; its Caller is bound to the user's id exactly
\* when the method accepts a wallet and a user was resolved, to 0 otherwise,
\* and to the user's server whenever the user has one.
C10_NotRequiredProceeds ==
    [][/\ (pc = "auth" /\ ~MethodRequiresWallet(rpcReq.Method) /\ pc' # "auth")
            => (pc' = "route" /\ authErr' = NoAuthError
                  /\ written' = << >> /\ failures' = << >>)
       /\ (RoutedNow /\ ~MethodRequiresWallet(rpcReq.Method))
            => /\ (MethodAcceptsWallet(rpcReq.Method) /\ user # NilUser)
                    => caller'.userID = user
               /\ ~(MethodAcceptsWallet(rpcReq.Method) /\ user # NilUser)
                    => caller'.userID = 0
               /\ (user # NilUser /\ binding[user] # NoAddress)
                    => caller'.endpoint = binding[user]]_vars

C10_Witness ==
    /\ pc = "call"
    /\ rpcReq.Method = "status"
    /\ user # NilUser
    /\ err # NilErr
    /\ caller.userID = 0
    /\ binding[user] # NoAddress
    /\ caller.endpoint = binding[user]

====
